---- MODULE Spec2Model ----
(***************************************************************************)
(* Model of the docker_model_runner client: the tool_choice emulation of   *)
(* chat.completions.create / stream (src/client.py, src/async_client.py)   *)
(* and the streaming response decoder _stream_response.                    *)
(*                                                                         *)
(* Bytes are naturals 0..255, decoded text is a sequence of code points.   *)
(* The sync and async clients hold the same code for everything modelled   *)
(* here; line numbers in comments are those of src/client.py.              *)
(***************************************************************************)
EXTENDS Integers, Sequences, FiniteSets, TLC

VARIABLES
    callerMsgs,  \* the caller's `messages` list (the caller keeps the reference)
    call,        \* history: the arguments of the call in progress / last made
    calls,       \* number of calls made so far
    data,        \* the local `data` dict of that call
    sent,        \* the JSON bodies that call has POSTed, in order
    raised,      \* the error that call raised: "none" | "KeyError"
                 \* | "HTTPError" (raise_for_status, async lifecycle only)
    session,     \* client.session: 0 is None, else the id of a session
    openSessions,\* the ids of the sessions created and not yet closed
    made,        \* number of sessions created so far
    lastOp,      \* history: the last lifecycle operation or endpoint called
    full,        \* the whole response body of the streaming request (bytes)
    content,     \* the bytes of that body not yet delivered by iter_content
    buffer,      \* _stream_response: local `buffer` (text)
    emitted,     \* what the iterator of the call has yielded so far
    seen,        \* history: concatenation of every decoded_chunk so far
    pc           \* "idle" | "pending" (create returned an unstarted Stream)
                 \* | "reading" | "done" (sentinel) | "closed" (body exhausted)

vars == <<callerMsgs, call, calls, data, sent, raised,
          session, openSessions, made, lastOp,
          full, content, buffer, emitted, seen, pc>>

sessionVars == <<session, openSessions, made, lastOp>>

----------------------------------------------------------------------------
(* Bounds of the model *)

MaxLines == 2            \* newline-terminated lines in a response body
MaxCalls == 2            \* calls a caller makes on one client
MaxSessions == 3         \* sessions one async client creates

----------------------------------------------------------------------------
(* Generic helpers *)

MinOf(S) == CHOOSE x \in S : \A y \in S : x <= y
MaxOf(S) == CHOOSE x \in S : \A y \in S : x >= y
Front(s) == SubSeq(s, 1, Len(s) - 1)
Last(s) == s[Len(s)]

----------------------------------------------------------------------------
(* bytes.decode('utf-8', errors='replace')  -- client.py:140               *)

ChunkSize == 1024        \* iter_content(chunk_size=1024)
NL == 10                 \* '\n', the separator of buffer.split
Replacement == 65533     \* U+FFFD, what errors='replace' substitutes

\* number of continuation bytes a lead byte announces; -1: not a lead byte
Need(lead) ==
    IF lead < 128 THEN 0
    ELSE IF lead >= 194 /\ lead <= 223 THEN 1
    ELSE IF lead >= 224 /\ lead <= 239 THEN 2
    ELSE IF lead >= 240 /\ lead <= 244 THEN 3
    ELSE -1

\* the range the first continuation byte must lie in (no overlong forms,
\* no surrogates, nothing above U+10FFFF)
SecondLo(lead) == IF lead = 224 THEN 160 ELSE IF lead = 240 THEN 144 ELSE 128
SecondHi(lead) == IF lead = 237 THEN 159 ELSE IF lead = 244 THEN 143 ELSE 191

GoodCont(b, i, j) ==
    /\ i + j <= Len(b)
    /\ IF j = 1
       THEN b[i + 1] >= SecondLo(b[i]) /\ b[i + 1] <= SecondHi(b[i])
       ELSE b[i + j] >= 128 /\ b[i + j] <= 191

\* how many of the announced continuation bytes are there and valid
ValidCont(b, i) ==
    Cardinality({j \in 1..Need(b[i]) : \A m \in 1..j : GoodCont(b, i, m)})

CodePoint(b, i) ==
    LET n == Need(b[i]) IN
    IF n = 1 THEN (b[i] - 192) * 64 + (b[i + 1] - 128)
    ELSE IF n = 2 THEN (b[i] - 224) * 4096 + (b[i + 1] - 128) * 64 + (b[i + 2] - 128)
    ELSE (b[i] - 240) * 262144 + (b[i + 1] - 128) * 4096
             + (b[i + 2] - 128) * 64 + (b[i + 3] - 128)

RECURSIVE DecodeFrom(_, _)
DecodeFrom(b, i) ==
    IF i > Len(b) THEN <<>>
    ELSE LET n == Need(b[i]) IN
         IF n = 0 THEN <<b[i]>> \o DecodeFrom(b, i + 1)
         ELSE IF n = -1 THEN <<Replacement>> \o DecodeFrom(b, i + 1)
         ELSE LET k == ValidCont(b, i) IN
              IF k = n THEN <<CodePoint(b, i)>> \o DecodeFrom(b, i + n + 1)
              \* a truncated or broken sequence: its maximal valid prefix
              \* becomes one replacement character
              ELSE <<Replacement>> \o DecodeFrom(b, i + k + 1)

Utf8Decode(b) == DecodeFrom(b, 1)

----------------------------------------------------------------------------
(* str.strip, str.split('\n'), str.startswith                              *)

IsSpace(c) ==
    \/ c \in {9, 10, 11, 12, 13, 28, 29, 30, 31, 32, 133, 160, 5760}
    \/ (c >= 8192 /\ c <= 8202)
    \/ c \in {8232, 8233, 8239, 8287, 12288}

Strip(s) ==
    LET keep == {i \in 1..Len(s) : ~IsSpace(s[i])} IN
    IF keep = {} THEN <<>> ELSE SubSeq(s, MinOf(keep), MaxOf(keep))

RECURSIVE SplitLines(_)
SplitLines(s) ==
    LET at == {i \in 1..Len(s) : s[i] = NL} IN
    IF at = {} THEN <<s>>
    ELSE LET p == MinOf(at) IN
         <<SubSeq(s, 1, p - 1)>> \o SplitLines(SubSeq(s, p + 1, Len(s)))

StartsWith(s, p) == Len(s) >= Len(p) /\ SubSeq(s, 1, Len(p)) = p

DataPrefix == <<100, 97, 116, 97, 58, 32>>       \* 'data: '
DoneMark == <<91, 68, 79, 78, 69, 93>>           \* '[DONE]'

----------------------------------------------------------------------------
(* json.loads, on the grammar without string escapes, fractions and        *)
(* exponents (no response body of the model holds a backslash, '.', 'e').  *)
(* A parsed value is represented by its text with the insignificant        *)
(* whitespace removed.                                                     *)

Fail == [ok |-> FALSE, next |-> 0, out |-> <<>>]
Ok(n, o) == [ok |-> TRUE, next |-> n, out |-> o]

JsonWs == {32, 9, 10, 13}
IsDigit(c) == c >= 48 /\ c <= 57

RECURSIVE SkipWs(_, _)
SkipWs(s, i) == IF i <= Len(s) /\ s[i] \in JsonWs THEN SkipWs(s, i + 1) ELSE i

At(s, i, c) == i <= Len(s) /\ s[i] = c

\* s[i] is the opening quote
ParseString(s, i) ==
    LET close == {j \in (i + 1)..Len(s) : s[j] = 34} IN
    IF close = {} THEN Fail
    ELSE LET e == MinOf(close) IN
         IF \E j \in (i + 1)..(e - 1) : s[j] < 32 \/ s[j] = 92 THEN Fail
         ELSE Ok(e + 1, SubSeq(s, i, e))

RECURSIVE DigitsEnd(_, _)
DigitsEnd(s, i) == IF i <= Len(s) /\ IsDigit(s[i]) THEN DigitsEnd(s, i + 1) ELSE i

\* -?(0|[1-9][0-9]*)
ParseNumber(s, i) ==
    LET d == IF At(s, i, 45) THEN i + 1 ELSE i IN
    IF ~(d <= Len(s) /\ IsDigit(s[d])) THEN Fail
    ELSE LET e == IF s[d] = 48 THEN d + 1 ELSE DigitsEnd(s, d) IN
         Ok(e, SubSeq(s, i, e - 1))

LitTrue == <<116, 114, 117, 101>>
LitFalse == <<102, 97, 108, 115, 101>>
LitNull == <<110, 117, 108, 108>>

ParseLiteral(s, i) ==
    LET rest == SubSeq(s, i, Len(s)) IN
    IF StartsWith(rest, LitTrue) THEN Ok(i + 4, LitTrue)
    ELSE IF StartsWith(rest, LitFalse) THEN Ok(i + 5, LitFalse)
    ELSE IF StartsWith(rest, LitNull) THEN Ok(i + 4, LitNull)
    ELSE Fail

RECURSIVE ParseValue(_, _), ParseMembers(_, _, _), ParseItems(_, _, _)

\* s[i] is the first character of a value (whitespace already skipped)
ParseValue(s, i) ==
    IF i > Len(s) THEN Fail
    ELSE IF s[i] = 34 THEN ParseString(s, i)
    ELSE IF s[i] = 123 THEN
        LET j == SkipWs(s, i + 1) IN
        IF At(s, j, 125) THEN Ok(j + 1, <<123, 125>>)
        ELSE ParseMembers(s, j, <<123>>)
    ELSE IF s[i] = 91 THEN
        LET j == SkipWs(s, i + 1) IN
        IF At(s, j, 93) THEN Ok(j + 1, <<91, 93>>)
        ELSE ParseItems(s, j, <<91>>)
    ELSE IF s[i] = 45 \/ IsDigit(s[i]) THEN ParseNumber(s, i)
    ELSE ParseLiteral(s, i)

\* "key" : value  ( , "key" : value )*  }
ParseMembers(s, i, acc) ==
    IF ~At(s, i, 34) THEN Fail
    ELSE LET key == ParseString(s, i) IN
         IF ~key.ok THEN Fail
         ELSE LET c == SkipWs(s, key.next) IN
              IF ~At(s, c, 58) THEN Fail
              ELSE LET v == ParseValue(s, SkipWs(s, c + 1)) IN
                   IF ~v.ok THEN Fail
                   ELSE LET m == SkipWs(s, v.next)
                            sofar == acc \o key.out \o <<58>> \o v.out IN
                        IF At(s, m, 125) THEN Ok(m + 1, sofar \o <<125>>)
                        ELSE IF At(s, m, 44)
                        THEN ParseMembers(s, SkipWs(s, m + 1), sofar \o <<44>>)
                        ELSE Fail

\* value ( , value )* ]
ParseItems(s, i, acc) ==
    LET v == ParseValue(s, i) IN
    IF ~v.ok THEN Fail
    ELSE LET m == SkipWs(s, v.next)
             sofar == acc \o v.out IN
         IF At(s, m, 93) THEN Ok(m + 1, sofar \o <<93>>)
         ELSE IF At(s, m, 44)
         THEN ParseItems(s, SkipWs(s, m + 1), sofar \o <<44>>)
         ELSE Fail

\* [ok, out]: ok = FALSE models json.JSONDecodeError
JsonLoads(s) ==
    LET v == ParseValue(s, SkipWs(s, 1)) IN
    IF v.ok /\ SkipWs(s, v.next) = Len(s) + 1 THEN v ELSE Fail

----------------------------------------------------------------------------
(* _stream_response  -- client.py:132-161, async_client.py:168-203         *)

\* lines = buffer.split('\n'); buffer = lines.pop()
SplitBuffer(buf) ==
    LET parts == SplitLines(buf) IN [lines |-> Front(parts), rest |-> Last(parts)]

\* HandleLine with the sentinel skipped like an empty line instead of
\* ending the generator (`continue` where the code has `return`)
HandleLineNoReturn(raw) ==
    LET line == Strip(raw) IN
    IF line = <<>> THEN [emit |-> <<>>, stop |-> FALSE]
    ELSE IF StartsWith(line, DataPrefix) THEN
        LET data_str == SubSeq(line, 7, Len(line)) IN
        LET j == JsonLoads(data_str) IN
        [emit |-> IF j.ok THEN <<j.out>> ELSE <<>>, stop |-> FALSE]
    ELSE LET j == JsonLoads(line) IN
         [emit |-> IF j.ok THEN <<j.out>> ELSE <<>>, stop |-> FALSE]

\* the body of `for line in lines`: what it yields, and whether it returns
HandleLine(raw) ==
    LET line == Strip(raw) IN
    IF line = <<>> THEN [emit |-> <<>>, stop |-> FALSE]
    ELSE IF StartsWith(line, DataPrefix) THEN
        LET data_str == SubSeq(line, 7, Len(line)) IN
        IF data_str = DoneMark THEN [emit |-> <<>>, stop |-> TRUE]
        ELSE LET j == JsonLoads(data_str) IN
             [emit |-> IF j.ok THEN <<j.out>> ELSE <<>>, stop |-> FALSE]
    ELSE LET j == JsonLoads(line) IN
         [emit |-> IF j.ok THEN <<j.out>> ELSE <<>>, stop |-> FALSE]

\* the `for line in lines` loop: everything yielded, and whether `return` ran
RECURSIVE ProcessLines(_)
ProcessLines(lines) ==
    IF lines = <<>> THEN [emit |-> <<>>, done |-> FALSE]
    ELSE LET h == HandleLine(Head(lines)) IN
         IF h.stop THEN [emit |-> <<>>, done |-> TRUE]
         ELSE LET r == ProcessLines(Tail(lines)) IN
              [emit |-> h.emit \o r.emit, done |-> r.done]

\* one iteration of `for chunk in response.iter_content(chunk_size=1024)`
RecvChunk ==
    /\ UNCHANGED sessionVars
    /\ pc = "reading"
    /\ content # <<>>
    /\ \E n \in 1..(IF Len(content) < ChunkSize THEN Len(content) ELSE ChunkSize) :
          LET chunk == SubSeq(content, 1, n)
              decoded_chunk == Utf8Decode(chunk)
              sp == SplitBuffer(buffer \o decoded_chunk)
              r == ProcessLines(sp.lines)
          IN /\ content' = SubSeq(content, n + 1, Len(content))
             /\ buffer' = sp.rest
             /\ emitted' = emitted \o r.emit
             /\ seen' = seen \o decoded_chunk
             /\ pc' = IF r.done THEN "done" ELSE "reading"
    /\ UNCHANGED <<full, callerMsgs, call, calls, data, sent, raised>>

\* StreamEnd with the rest of `buffer` handled as one last line
StreamEndFlush ==
    /\ UNCHANGED sessionVars
    /\ pc = "reading"
    /\ content = <<>>
    /\ emitted' = emitted \o HandleLine(buffer).emit
    /\ pc' = "closed"
    /\ UNCHANGED <<full, content, buffer, seen,
                   callerMsgs, call, calls, data, sent, raised>>

\* iter_content is exhausted: the loop ends, `buffer` goes out of scope
StreamEnd ==
    /\ UNCHANGED sessionVars
    /\ pc = "reading"
    /\ content = <<>>
    /\ pc' = "closed"
    /\ UNCHANGED <<full, content, buffer, emitted, seen,
                   callerMsgs, call, calls, data, sent, raised>>

----------------------------------------------------------------------------
(* Response bodies the server streams                                      *)

JsonA == <<123, 34, 97, 34, 58, 49, 125>>              \* {"a":1}
JsonE == <<123, 34, 195, 169, 34, 58, 50, 125>>        \* {"é":2}, é = C3 A9

BodyLines ==
    { DataPrefix \o JsonA,          \* data: {"a":1}
      JsonE,                        \* {"é":2}
      DataPrefix \o DoneMark,       \* data: [DONE]
      <<120>>,                      \* x        (not JSON)
      <<>> }                        \* an empty line

\* what may follow the last newline of a body
BodyTails == { <<>>, JsonA, DataPrefix \o DoneMark }

RECURSIVE Render(_)
Render(ls) == IF ls = <<>> THEN <<>> ELSE Head(ls) \o <<NL>> \o Render(Tail(ls))

Bodies ==
    { Render(ls) \o t : ls \in UNION { [1..k -> BodyLines] : k \in 0..MaxLines },
                        t \in BodyTails }

\* the bodies the server answers a streaming chat call with while the
\* request side is explored
ServerBodies ==
    { Render(<<DataPrefix \o DoneMark>>),      \* ends on the sentinel
      Render(<<JsonE>>) \o <<120>> }            \* ends by closing

\* response.json() of the trailing non-streaming request of stream()
FullResponse == <<123, 34, 102, 117, 108, 108, 34, 58, 49, 125>>   \* {"full":1}

----------------------------------------------------------------------------
(* Caller inputs                                                           *)

Msg(r, c) == [role |-> r, content |-> c]

MessageLists ==
    { <<Msg("user", "hi")>>,
      <<Msg("user", "a"), Msg("user", "b"), Msg("assistant", "ok")>>,
      <<Msg("system", "sys"), Msg("assistant", "ok")>>,
      <<>> }

FunctionTool(n) == [function |-> [name |-> n]]
McpTool == [type |-> "mcp", server_label |-> "duckduckgo"]

ToolLists ==
    { <<>>,
      <<FunctionTool("search")>>,
      <<FunctionTool("search"), FunctionTool("fetch")>>,
      <<McpTool>> }

ToolChoices == {"unset", "auto", "none", "always"}

\* a dict as a function from its keys; {} is the function of empty domain
EmptyDict == [k \in {} |-> 0]
Pop(d, key) == [k \in DOMAIN d \ {key} |-> d[k]]
Opt(key, vals) == {EmptyDict} \cup {(key :> v) : v \in vals}

\* **kwargs of create (tool_choice is a named parameter of create)
CreateKwargs ==
    { t @@ s @@ o : t \in Opt("tools", ToolLists),
                    s \in Opt("stream", {TRUE}),
                    o \in Opt("temperature", {1}) }

\* **kwargs of stream (which has no tool_choice parameter of its own)
StreamKwargs ==
    { t @@ c @@ s @@ o : t \in Opt("tools", {<<FunctionTool("search")>>, <<McpTool>>}),
                         c \in Opt("tool_choice", ToolChoices \ {"unset"}),
                         s \in Opt("stream", {FALSE}),
                         o \in Opt("temperature", {1}) }

NoCall == [op |-> "none", tool_choice |-> "unset", kwargs |-> EmptyDict,
           before |-> <<>>]

----------------------------------------------------------------------------
(* tool_choice emulation  -- client.py:89-107, async_client.py:119-137     *)

Model == "ai/gemma3"

\* tool["function"]["name"] raises KeyError when either key is missing
HasFunctionName(tool) ==
    "function" \in DOMAIN tool /\ "name" \in DOMAIN tool.function

\* tool_names = [tool["function"]["name"] for tool in data["tools"]]
ToolNames(tools) == [i \in 1..Len(tools) |-> tools[i].function.name]

\* ", ".join(tool_names)
RECURSIVE Join(_)
Join(names) ==
    IF names = <<>> THEN ""
    ELSE IF Len(names) = 1 THEN names[1]
    ELSE names[1] \o ", " \o Join(Tail(names))

Suffix(tool_names_str) ==
    " Use tool " \o tool_names_str \o " to respond strictly use tool."

\* the message `for msg in reversed(data["messages"])` stops at; 0: none
LastUser(msgs) ==
    LET u == {i \in 1..Len(msgs) : msgs[i].role = "user"} IN
    IF u = {} THEN 0 ELSE MaxOf(u)

\* AppendSuffix scanning from the front (the loop without `reversed`)
AppendSuffixFirstUser(msgs, tool_names_str) ==
    LET u == {i \in 1..Len(msgs) : msgs[i].role = "user"} IN
    IF u = {} THEN msgs
    ELSE [msgs EXCEPT ![MinOf(u)].content = @ \o Suffix(tool_names_str)]

\* msg["content"] += f" Use tool {tool_names_str} ..."; break
AppendSuffix(msgs, tool_names_str) ==
    LET k == LastUser(msgs) IN
    IF k = 0 THEN msgs
    ELSE [msgs EXCEPT ![k].content = @ \o Suffix(tool_names_str)]

\* NoneBranch without the pop
NoneBranchKeepsTools(d) == d

\* if tool_choice == "none": data.pop("tools", None)
NoneBranch(d) == Pop(d, "tools")

\* the if/elif chain on tool_choice and the final data.pop("tool_choice"):
\* the error raised (if any) and `data` afterwards
Emulate(tool_choice, d) ==
    IF tool_choice = "none"
    THEN [err |-> "none", data |-> Pop(NoneBranch(d), "tool_choice")]
    ELSE IF tool_choice = "always" /\ "tools" \in DOMAIN d
    THEN IF \E i \in 1..Len(d.tools) : ~HasFunctionName(d.tools[i])
         THEN [err |-> "KeyError", data |-> d]
         ELSE [err |-> "none",
               data |-> Pop([d EXCEPT !.messages =
                                AppendSuffix(@, Join(ToolNames(d.tools)))],
                            "tool_choice")]
    ELSE [err |-> "none", data |-> Pop(d, "tool_choice")]

WantsStream(kw) == "stream" \in DOMAIN kw /\ kw["stream"] = TRUE

----------------------------------------------------------------------------
(* Calls.  The server answers every request with a success status.         *)

\* ChatCompletions.create.  data["messages"] is the caller's own list and
\* its elements are the caller's own dicts, so what the emulation writes
\* into data["messages"] is written into callerMsgs.
Create ==
    /\ UNCHANGED sessionVars
    /\ pc = "idle"
    /\ calls < MaxCalls
    /\ \E tc \in ToolChoices, kw \in CreateKwargs :
          LET d0 == kw @@ [model |-> Model, messages |-> callerMsgs]
              r == Emulate(tc, d0)
          IN /\ call' = [op |-> "create", tool_choice |-> tc, kwargs |-> kw,
                         before |-> callerMsgs]
             /\ raised' = r.err
             /\ data' = r.data
             /\ callerMsgs' = r.data.messages
             /\ sent' = IF r.err = "none" /\ ~WantsStream(kw)
                        THEN <<r.data>> ELSE <<>>
             /\ pc' = IF r.err = "none" /\ WantsStream(kw)
                      THEN "pending" ELSE "idle"
    /\ calls' = calls + 1
    /\ full' = <<>> /\ content' = <<>> /\ buffer' = <<>>
    /\ emitted' = <<>> /\ seen' = <<>>

\* the first next() on the Stream create returned: _stream_response posts
IterStart ==
    /\ UNCHANGED sessionVars
    /\ pc = "pending"
    /\ sent' = <<[data EXCEPT !.messages = callerMsgs]>>
    /\ \E b \in ServerBodies : full' = b /\ content' = b
    /\ buffer' = <<>> /\ emitted' = <<>> /\ seen' = <<>>
    /\ pc' = "reading"
    /\ UNCHANGED <<callerMsgs, call, calls, data, raised>>

\* the Stream of create is exhausted
IterEnd ==
    /\ UNCHANGED sessionVars
    /\ pc \in {"done", "closed"}
    /\ call.op = "create"
    /\ pc' = "idle"
    /\ UNCHANGED <<callerMsgs, call, calls, data, sent, raised,
                   full, content, buffer, emitted, seen>>

\* ChatCompletions.stream up to its first request (a generator: the body
\* runs when the caller iterates)
StreamCall ==
    /\ UNCHANGED sessionVars
    /\ pc = "idle"
    /\ calls < MaxCalls
    /\ \E kw \in StreamKwargs :
          LET d == kw @@ [model |-> Model, messages |-> callerMsgs,
                          stream |-> TRUE]
          IN /\ call' = [op |-> "stream", tool_choice |-> "unset",
                         kwargs |-> kw, before |-> callerMsgs]
             /\ data' = d
             /\ sent' = <<d>>
    /\ \E b \in ServerBodies : full' = b /\ content' = b
    /\ calls' = calls + 1
    /\ raised' = "none"
    /\ buffer' = <<>> /\ emitted' = <<>> /\ seen' = <<>>
    /\ pc' = "reading"
    /\ UNCHANGED callerMsgs

\* StreamTail posting `data` itself, `stream` key and all
StreamTailKeepsStream ==
    /\ UNCHANGED sessionVars
    /\ pc \in {"done", "closed"}
    /\ call.op = "stream"
    /\ sent' = Append(sent, data)
    /\ emitted' = Append(emitted, FullResponse)
    /\ pc' = "idle"
    /\ UNCHANGED <<callerMsgs, call, calls, data, raised,
                   full, content, buffer, seen>>

\* stream() after its `for chunk in self._stream_response(...)` loop
StreamTail ==
    /\ UNCHANGED sessionVars
    /\ pc \in {"done", "closed"}
    /\ call.op = "stream"
    /\ sent' = Append(sent, Pop(data, "stream"))
    /\ emitted' = Append(emitted, FullResponse)
    /\ pc' = "idle"
    /\ UNCHANGED <<callerMsgs, call, calls, data, raised,
                   full, content, buffer, seen>>

----------------------------------------------------------------------------
(* Specifications *)

\* a client just constructed, and a caller holding a message list
Init ==
    /\ callerMsgs \in MessageLists
    /\ call = NoCall
    /\ calls = 0
    /\ data = EmptyDict
    /\ sent = <<>>
    /\ raised = "none"
    /\ session = 1 /\ openSessions = {1} /\ made = 1   \* requests.Session()
    /\ lastOp = "init"
    /\ full = <<>> /\ content = <<>> /\ buffer = <<>>
    /\ emitted = <<>> /\ seen = <<>>
    /\ pc = "idle"

Next ==
    \/ Create
    \/ IterStart
    \/ StreamCall
    \/ RecvChunk
    \/ StreamEnd
    \/ IterEnd
    \/ StreamTail

Spec == Init /\ [][Next]_vars

\* the decoder alone, over every response body of Bodies: the state in
\* which create(model, messages, stream=True) has just posted its request
DecoderInit ==
    LET msgs == <<Msg("user", "hi")>>
        kw == ("stream" :> TRUE)
        d == kw @@ [model |-> Model, messages |-> msgs]
    IN /\ callerMsgs = msgs
       /\ call = [op |-> "create", tool_choice |-> "unset", kwargs |-> kw,
                  before |-> msgs]
       /\ calls = 1
       /\ data = d
       /\ sent = <<d>>
       /\ raised = "none"
       /\ session = 1 /\ openSessions = {1} /\ made = 1
       /\ lastOp = "init"
       /\ full \in Bodies
       /\ content = full
       /\ buffer = <<>> /\ emitted = <<>> /\ seen = <<>>
       /\ pc = "reading"

DecoderNext ==
    \/ RecvChunk
    \/ StreamEnd

DecoderSpec == DecoderInit /\ [][DecoderNext]_vars

----------------------------------------------------------------------------
(* AsyncClient: the life of its aiohttp session  -- async_client.py        *)

\* the methods that start with `if self.client.session is None:`
Endpoints ==
    { "chat.completions.create", "chat.completions.stream",
      "completions.create", "embeddings.create",
      "models.list", "models.retrieve", "models.create", "models.delete" }

requestVars == <<callerMsgs, call, calls, data, sent,
                 full, content, buffer, emitted, seen, pc>>

\* __aenter__: self.session = aiohttp.ClientSession(headers=headers),
\* whatever self.session held
AEnter ==
    /\ made < MaxSessions
    /\ made' = made + 1
    /\ session' = made + 1
    /\ openSessions' = openSessions \cup {made + 1}
    /\ lastOp' = "__aenter__"
    /\ UNCHANGED <<requestVars, raised>>

\* if self.session: await self.session.close(); self.session = None
ReleaseSession ==
    /\ openSessions' = openSessions \ {session}
    /\ session' = 0
    /\ UNCHANGED made

\* __aexit__(exc_type, exc_val, exc_tb): the arguments are not looked at
AExit ==
    /\ ReleaseSession
    /\ \E exc \in BOOLEAN :
          lastOp' = IF exc THEN "__aexit__ on error" ELSE "__aexit__"
    /\ UNCHANGED <<requestVars, raised>>

\* close()
Close ==
    /\ ReleaseSession
    /\ lastOp' = "close"
    /\ UNCHANGED <<requestVars, raised>>

\* an endpoint method: the session is created when there is none, then
\* the request is made on it; raise_for_status raises on an error status
EndpointCall ==
    /\ session # 0 \/ made < MaxSessions
    /\ IF session = 0
       THEN /\ made' = made + 1
            /\ session' = made + 1
            /\ openSessions' = openSessions \cup {made + 1}
       ELSE UNCHANGED <<made, session, openSessions>>
    /\ \E ep \in Endpoints : lastOp' = ep
    /\ \E err \in {"none", "HTTPError"} : raised' = err
    /\ UNCHANGED requestVars

\* AsyncClient(): self.session = None, and a caller about to use it
AsyncInit ==
    /\ callerMsgs = <<Msg("user", "Hello!")>>
    /\ call = NoCall
    /\ calls = 0
    /\ data = EmptyDict
    /\ sent = <<>>
    /\ raised = "none"
    /\ session = 0 /\ openSessions = {} /\ made = 0
    /\ lastOp = "init"
    /\ full = <<>> /\ content = <<>> /\ buffer = <<>>
    /\ emitted = <<>> /\ seen = <<>>
    /\ pc = "idle"

AsyncNext ==
    \/ AEnter
    \/ AExit
    \/ Close
    \/ EndpointCall

AsyncSpec == AsyncInit /\ [][AsyncNext]_vars

----------------------------------------------------------------------------
(* Vocabulary of the properties                                            *)

Finished == pc \in {"done", "closed"}

\* the newline-terminated lines of a text
CompleteLines(text) == Front(SplitLines(text))

\* a line that is `data: [DONE]` once trimmed
IsSentinel(raw) == Strip(raw) = <<100, 97, 116, 97, 58, 32, 91, 68, 79, 78, 69, 93>>

\* index of the first sentinel line, 0 when there is none
FirstSentinel(ls) ==
    LET at == {i \in 1..Len(ls) : IsSentinel(ls[i])} IN
    IF at = {} THEN 0 ELSE MinOf(at)

\* a line trimmed and without its optional `data: ` prefix
Payload(raw) ==
    LET t == Strip(raw) IN
    IF StartsWith(t, DataPrefix) THEN SubSeq(t, 7, Len(t)) ELSE t

\* the values of the lines that parse as JSON, in line order
ObjectsOf(ls) ==
    LET F[i \in 0..Len(ls)] ==
          IF i = 0 THEN <<>>
          ELSE IF Strip(ls[i]) # <<>> /\ JsonLoads(Payload(ls[i])).ok
               THEN Append(F[i - 1], JsonLoads(Payload(ls[i])).out)
               ELSE F[i - 1]
    IN F[Len(ls)]

BeforeSentinel(ls) ==
    IF FirstSentinel(ls) = 0 THEN ls ELSE SubSeq(ls, 1, FirstSentinel(ls) - 1)

\* what _stream_response yields when the whole body arrives as one chunk
SingleChunk(body) == ProcessLines(SplitBuffer(Utf8Decode(body)).lines).emit

----------------------------------------------------------------------------
(* C1: chunk-boundary independence.  However the body is cut into chunks,  *)
(* the finished decoder has emitted the sequence it emits when the same    *)
(* bytes arrive as one chunk.                                              *)
C1_ChunkBoundaryIndependence ==
    Finished => emitted = SingleChunk(full)

(* C2: once a complete line that is `data: [DONE]` has been processed the  *)
(* generator has returned and nothing that follows the sentinel is         *)
(* emitted: the emitted sequence holds objects of the lines before the     *)
(* sentinel only, whatever follows it in the same chunk or in later bytes. *)
C2_NothingAfterSentinel ==
    LET ls == CompleteLines(seen) IN
    FirstSentinel(ls) # 0 =>
        /\ pc = "done"
        /\ emitted = ObjectsOf(SubSeq(ls, 1, FirstSentinel(ls) - 1))

\* the generator returned on the sentinel while a line that parses as JSON
\* followed it in the text already split, and bytes were still undelivered
C2_Witness ==
    LET ls == CompleteLines(seen) IN
    /\ pc = "done"
    /\ content # <<>>
    /\ \E i \in (FirstSentinel(ls) + 1)..Len(ls) : JsonLoads(Payload(ls[i])).ok

(* C9: when the body is exhausted without a sentinel, the text left in     *)
(* the buffer after the last newline is discarded: the emitted sequence    *)
(* holds the objects of the newline-terminated lines and nothing else,     *)
(* and the buffer still holds the unterminated rest.                       *)
C9_TrailingBufferDiscarded ==
    pc = "closed" =>
        /\ buffer = Last(SplitLines(seen))
        /\ emitted = ObjectsOf(CompleteLines(seen))

\* the body ended on an unterminated rest that is by itself valid JSON
C9_Witness ==
    /\ pc = "closed"
    /\ buffer # <<>>
    /\ JsonLoads(Strip(buffer)).ok
    /\ emitted # <<>>

(* C10: the emitted sequence is exactly the values of the newline-         *)
(* terminated lines of the byte stream before the sentinel that parse as   *)
(* JSON, in stream order.                                                  *)
C10_ExactlyTheParsableLines ==
    Finished =>
        emitted = ObjectsOf(BeforeSentinel(CompleteLines(Utf8Decode(full))))

----------------------------------------------------------------------------
(* Vocabulary of the request-side properties                               *)

\* the payload the caller handed over: model, messages and options
CallerPayload == call.kwargs @@ [model |-> Model, messages |-> call.before]

SameDict(a, b) == DOMAIN a = DOMAIN b /\ \A k \in DOMAIN a : a[k] = b[k]

CreateWith(tc) == call.op = "create" /\ call.tool_choice = tc

HasUser(msgs) == \E i \in 1..Len(msgs) : msgs[i].role = "user"

\* i is the last message of role user
IsLastUser(msgs, i) ==
    /\ msgs[i].role = "user"
    /\ \A j \in (i + 1)..Len(msgs) : msgs[j].role # "user"

\* the names of the tools in tools order, joined by ", "
NamesInOrder(tools) ==
    LET F[i \in 1..Len(tools)] ==
          IF i = 1 THEN tools[1].function.name
          ELSE F[i - 1] \o ", " \o tools[i].function.name
    IN F[Len(tools)]

\* name of a tool with the fallback to server_label, then type
NameOrLabel(tool) ==
    IF HasFunctionName(tool) THEN tool.function.name
    ELSE IF "server_label" \in DOMAIN tool THEN tool.server_label
    ELSE tool.type

LabelsInOrder(tools) ==
    LET F[i \in 1..Len(tools)] ==
          IF i = 1 THEN NameOrLabel(tools[1])
          ELSE F[i - 1] \o ", " \o NameOrLabel(tools[i])
    IN F[Len(tools)]

WithSuffix(msgs, names) ==
    [i \in 1..Len(msgs) |->
        IF IsLastUser(msgs, i)
        THEN [role |-> "user",
              content |-> msgs[i].content \o " Use tool " \o names
                              \o " to respond strictly use tool."]
        ELSE msgs[i]]

----------------------------------------------------------------------------
(* C3: no transmitted body holds a `tool_choice` key, whichever chat call  *)
(* (create or stream) the caller passed tool_choice to.                    *)
C3_ToolChoiceNeverSent ==
    \A i \in 1..Len(sent) : "tool_choice" \notin DOMAIN sent[i]

(* C4: create leaves the caller's message list and its messages as they    *)
(* were before the call.                                                   *)
C4_CallerMessagesUnchanged ==
    call.op = "create" => callerMsgs = call.before

(* C5: create with tool_choice="always", a non-empty tools list whose      *)
(* descriptors all have function.name, and a user message: the one body    *)
(* transmitted keeps `tools`, and its messages are the caller's with the   *)
(* suffix naming all tools in order appended to the last user message and  *)
(* every other message unchanged.                                          *)
C5_Applies ==
    /\ CreateWith("always")
    /\ "tools" \in DOMAIN call.kwargs
    /\ call.kwargs["tools"] # <<>>
    /\ \A i \in 1..Len(call.kwargs["tools"]) : HasFunctionName(call.kwargs["tools"][i])
    /\ HasUser(call.before)

C5_SuffixOnLastUserMessage ==
    (C5_Applies /\ pc # "pending") =>
        /\ Len(sent) = 1
        /\ "tools" \in DOMAIN sent[1]
        /\ sent[1]["tools"] = call.kwargs["tools"]
        /\ sent[1]["messages"] =
              WithSuffix(call.before, NamesInOrder(call.kwargs["tools"]))

\* two tools, and a last user message that is neither the first user
\* message nor the last message of the list
C5_Witness ==
    /\ C5_Applies
    /\ Len(sent) = 1
    /\ Len(call.kwargs["tools"]) = 2
    /\ Len(call.before) = 3
    /\ sent[1]["messages"][2].content =
          "b Use tool search, fetch to respond strictly use tool."

(* C6: create with tool_choice="always" and a tool descriptor without      *)
(* function.name raises nothing, names the tool by server_label or type,   *)
(* and transmits the request.                                              *)
C6_Applies ==
    /\ CreateWith("always")
    /\ "tools" \in DOMAIN call.kwargs
    /\ \E i \in 1..Len(call.kwargs["tools"]) : ~HasFunctionName(call.kwargs["tools"][i])

C6_McpToolsTolerated ==
    C6_Applies =>
        /\ raised = "none"
        /\ pc # "pending" =>
              /\ Len(sent) = 1
              /\ sent[1]["messages"] =
                    WithSuffix(call.before, LabelsInOrder(call.kwargs["tools"]))

(* C7: create with tool_choice="none": the body transmitted has no `tools` *)
(* key and is otherwise the caller's payload, key for key.                 *)
C7_NoneDropsToolsOnly ==
    (CreateWith("none") /\ pc # "pending") =>
        /\ Len(sent) = 1
        /\ "tools" \notin DOMAIN sent[1]
        /\ SameDict(sent[1], Pop(CallerPayload, "tools"))

\* the caller did supply a non-empty tools list and a passthrough option
C7_Witness ==
    /\ CreateWith("none")
    /\ "tools" \in DOMAIN call.kwargs
    /\ call.kwargs["tools"] # <<>>
    /\ "temperature" \in DOMAIN call.kwargs
    /\ Len(sent) = 1
    /\ sent[1]["temperature"] = 1

(* C8: create with tool_choice="always" and no user message raises         *)
(* nothing and transmits the caller's payload unchanged.                   *)
C8_NoUserMessageNoChange ==
    (CreateWith("always") /\ ~HasUser(call.before)) =>
        /\ raised = "none"
        /\ pc # "pending" => (Len(sent) = 1 /\ SameDict(sent[1], CallerPayload))

----------------------------------------------------------------------------
(* C11: chat.completions.stream, every request answered with success.      *)

\* the objects the decoder has yielded from the text it has seen
DecodedSoFar == ObjectsOf(BeforeSentinel(CompleteLines(seen)))

\* while the decoder runs one request has been made and only decoded
\* chunks have been yielded; once the call is over a second request has
\* been made, its body the first one's without `stream`, and its response
\* was yielded last, after every decoded chunk
C11_ChunksThenOneFullResponse ==
    /\ Len(sent) >= 1
    /\ SameDict(Pop(sent[1], "stream"), Pop(CallerPayload, "stream"))
    /\ pc \in {"reading", "done", "closed"} =>
          (Len(sent) = 1 /\ emitted = DecodedSoFar)
    /\ pc = "idle" =>
          /\ Len(sent) = 2
          /\ SameDict(sent[2], Pop(sent[1], "stream"))
          /\ emitted = Append(DecodedSoFar, FullResponse)

----------------------------------------------------------------------------
(* C13: create with tool_choice="always" appends the suffix only when      *)
(* `tools` is present and non-empty: with an empty tools list, or without  *)
(* a tools key, no message content is modified, neither in the caller's    *)
(* list nor in the body transmitted.                                       *)
C13_Applies ==
    /\ CreateWith("always")
    /\ "tools" \in DOMAIN call.kwargs => call.kwargs["tools"] = <<>>

C13_NoSuffixWithoutTools ==
    C13_Applies =>
        /\ callerMsgs = call.before
        /\ \A i \in 1..Len(sent) : sent[i]["messages"] = call.before

----------------------------------------------------------------------------
(* C12: the async client never holds more than one open session, and       *)
(* after any sequence of __aenter__, endpoint calls, close() and           *)
(* __aexit__ that ends with __aexit__ (on normal or error exit) or         *)
(* close(), no session the client created is left open.                    *)
C12_SessionsReleased ==
    /\ Cardinality(openSessions) <= 1
    /\ lastOp \in {"__aexit__", "__aexit__ on error", "close"} =>
          openSessions = {}

====
